---- MODULE Spec2Model ----
(***************************************************************************)
(* A model of the EVM contract-call front end (wtg-chen/evm_tool):         *)
(*   HistoryManager      src/unnamed/part_002                              *)
(*   AbiManager          src/js/modules/abi-manager.js                     *)
(*   ContractInteractor  src/js/modules/contract-interactor.js            *)
(* Each component has its own specification (SpecHistory, SpecAbi, ...);   *)
(* a specification leaves the other components' variables unchanged.       *)
(***************************************************************************)
EXTENDS Integers, Sequences, FiniteSets, TLC

VARIABLES
    history,      \* HistoryManager.history: entries, newest first
    txStorage,    \* localStorage['tx_history']: JSON text, or NoItem when absent
    nextEntry,    \* the sequence number the next added entry gets
    deletes,      \* how many in-range deleteHistoryItem calls have run (bounded)
    savedAbis,    \* AbiManager.savedAbis: own properties in insertion order
    abiStorage,   \* localStorage['saved_abis']: JSON text, or NoItem when absent
    contractAddress,     \* ContractInteractor.contractAddress
    abi,                 \* ContractInteractor.abi
    contract,            \* ContractInteractor.contract (read-only binding)
    contractWithSigner,  \* ContractInteractor.contractWithSigner
    pending,      \* the dispatched calls whose promise has not settled yet
    result,       \* the value the last call returned, UndefinedValue if none
    given,        \* the arguments a helper is applied to: [raw, outputs]
    call,         \* the last API call made: [op, arg, ret]
    ethereum,        \* whether window.ethereum exists (the wallet extension)
    isConnected,     \* MetaMaskConnector.isConnected
    currentAddress,  \* MetaMaskConnector.currentAddress
    currentChainId,  \* MetaMaskConnector.currentChainId
    provider,        \* MetaMaskConnector.provider
    signer,          \* MetaMaskConnector.signer
    requests,     \* the connect()/checkConnection() calls awaiting the wallet
    fired,        \* the callbacks the last connector step fired, in order
    statusConnected, \* the status element carries the class 'connected'
    buttonDisabled,  \* the connect button is disabled
    clicks,       \* the call-button handlers awaiting the calls in pending
    shown,        \* the notification the last handler showed, if any
    uncaught,     \* the error that escaped the last handler, if any
    files,        \* the static server's document root: path -> what is there
    serving,      \* the requests whose readFile has not called back yet
    responses,    \* the responses written so far, in order
    tabs          \* per browser tab: its HistoryManager.history and its
                  \* AbiManager.savedAbis, over the shared localStorage

vars == <<history, txStorage, nextEntry, deletes, savedAbis, abiStorage,
          contractAddress, abi, contract, contractWithSigner, pending,
          result, given, call, ethereum, isConnected, currentAddress,
          currentChainId, provider, signer, requests, fired,
          statusConnected, buttonDisabled, clicks, shown, uncaught,
          files, serving, responses, tabs>>

histVars == <<history, txStorage, nextEntry, deletes>>
abiVars == <<savedAbis, abiStorage>>
ciVars == <<contractAddress, abi, contract, contractWithSigner, pending,
           result, given>>
walletVars == <<ethereum, isConnected, currentAddress, currentChainId,
               provider, signer, requests, fired>>
uiVars == <<statusConnected, buttonDisabled, clicks, shown, uncaught>>
serverVars == <<files, serving, responses>>
tabVars == <<tabs>>
outsideVars == <<serverVars, tabVars>>
otherVars == <<walletVars, uiVars, outsideVars>>

(***************************************************************************)
(* JavaScript values.                                                      *)
(***************************************************************************)
Null == "<null>"
Undefined == "<undefined>"
ObjectPrototype == "<Object.prototype>"
FunctionObject == "<function>"

\* What localStorage.getItem returns for a key never written: null.
NoItem == [json |-> FALSE, doc |-> <<>>]

\* JSON.stringify of a value: the text that encodes it.
JSONstringify(v) == [json |-> TRUE, doc |-> v]

\* JSON.parse of a text JSONstringify produced.
JSONparseDoc(t) == t.doc

\* The call record of an operation that has returned (or thrown).
Called(op, arg, ret) == [op |-> op, arg |-> arg, ret |-> ret]

NoCall == Called("none", <<>>, "none")

\* No error was thrown.
NoError == "none"

(***************************************************************************)
(* HistoryManager (src/unnamed/part_002).  An entry is modelled by the     *)
(* sequence number of its addition; the entries of a previously persisted  *)
(* history carry the numbers below 1.                                      *)
(***************************************************************************)
maxHistoryItems == 50

\* Bounds of the history model.
MaxAdds == 52
MaxDeletes == 1

\* Lengths of the history found in storage at construction.
StoredLens == {0, 1, maxHistoryItems - 1, maxHistoryItems}

\* A persisted history of n entries, newest first: 0, -1, ..., -(n-1).
StoredHistory(n) == [i \in 1..n |-> 1 - i]

\* Array.prototype.slice(0, n)
SliceFront(s, n) == SubSeq(s, 1, IF n < Len(s) THEN n ELSE Len(s))

\* Array.prototype.splice(index, 1) for an in-range 0-based index
Splice1(s, index) == SubSeq(s, 1, index) \o SubSeq(s, index + 2, Len(s))

\* _loadHistory: the history a constructor reads from storage
LoadHistory(stored) ==
    IF stored # NoItem THEN JSONparseDoc(stored) ELSE <<>>

\* _saveHistory: the storage after writing h
SaveHistory(h) == JSONstringify(h)

\* A variant that appends the new entry (push) before truncating.
AddedHistoryPush(item, h) ==
    LET h1 == h \o <<item>>
    IN IF Len(h1) > maxHistoryItems THEN SliceFront(h1, maxHistoryItems) ELSE h1

\* unshift, then truncate
AddedHistory(item, h) ==
    LET h1 == <<item>> \o h
    IN IF Len(h1) > maxHistoryItems THEN SliceFront(h1, maxHistoryItems) ELSE h1

addToHistory ==
    /\ nextEntry <= MaxAdds
    /\ history' = AddedHistory(nextEntry, history)
    /\ txStorage' = SaveHistory(history')
    /\ nextEntry' = nextEntry + 1
    /\ call' = Called("addToHistory", <<nextEntry>>, "true")
    /\ UNCHANGED <<deletes, abiVars, ciVars, otherVars>>

clearHistory ==
    /\ history' = <<>>
    /\ txStorage' = SaveHistory(history')
    /\ call' = Called("clearHistory", <<>>, "true")
    /\ UNCHANGED <<nextEntry, deletes, abiVars, ciVars, otherVars>>

\* The indexes deleteHistoryItem is tried with.
DeleteIndexes(h) == {-1, 0, 1, Len(h) - 1, Len(h), Len(h) + 1}

\* A variant whose upper limit is off by one.
InRangeInclusive(index, h) == index >= 0 /\ index <= Len(h)

\* index >= 0 && index < this.history.length
InRange(index, h) == index >= 0 /\ index < Len(h)

deleteHistoryItem(index) ==
    IF InRange(index, history)
    THEN /\ deletes < MaxDeletes
         /\ history' = Splice1(history, index)
         /\ txStorage' = SaveHistory(history')
         /\ deletes' = deletes + 1
         /\ call' = Called("deleteHistoryItem", <<index>>, "true")
         /\ UNCHANGED <<nextEntry, abiVars, ciVars, otherVars>>
    ELSE /\ call' = Called("deleteHistoryItem", <<index>>, "false")
         /\ UNCHANGED <<histVars, abiVars, ciVars, otherVars>>

(***************************************************************************)
(* AbiManager (src/js/modules/abi-manager.js).  savedAbis is a plain       *)
(* JavaScript object: a sequence of own properties [k, v] in insertion     *)
(* order, on top of the properties it inherits from Object.prototype.      *)
(***************************************************************************)
\* ABI texts a user may paste, and what JSON.parse makes of each.
TextEmptyArray == "[]"
TextTokenAbi == "[{\"type\":\"event\",\"name\":\"Approval\"}, {\"type\":\"function\",\"name\":\"balanceOf\"}, {\"type\":\"function\",\"name\":\"transfer\"}]"
TextObject == "{}"
TextNumber == "5"
TextTruncated == "[{\"type\":"
TextWords == "not json"

Texts == {TextEmptyArray, TextTokenAbi, TextObject, TextNumber,
          TextTruncated, TextWords}

\* JSON.parse succeeds on the text
ParsesAsJson(t) == t \in {TextEmptyArray, TextTokenAbi, TextObject, TextNumber}

\* Array.isArray(JSON.parse(t)), for a text that parses
ParsesAsArray(t) == t \in {TextEmptyArray, TextTokenAbi}

Names == {"Token", "NFT", "toString", "__proto__"}

\* Property names every object inherits from Object.prototype.
InheritedNames == {"toString", "__proto__"}

OwnKeys(obj) == {obj[i].k : i \in 1..Len(obj)}

IndexOfKey(obj, key) == CHOOSE i \in 1..Len(obj) : obj[i].k = key

\* obj[key]
JsGet(obj, key) ==
    IF key \in OwnKeys(obj) THEN obj[IndexOfKey(obj, key)].v
    ELSE IF key = "__proto__" THEN ObjectPrototype
    ELSE IF key \in InheritedNames THEN FunctionObject
    ELSE Undefined

\* A variant that adds a property without looking for an existing one.
JsSetAppend(obj, key, text) ==
    IF key = "__proto__" THEN obj
    ELSE Append(obj, [k |-> key, v |-> text])

\* obj[key] = text, for a string value: the inherited __proto__ setter
\* ignores a value that is neither an object nor null.
JsSet(obj, key, text) ==
    IF key = "__proto__" THEN obj
    ELSE IF key \in OwnKeys(obj)
    THEN [obj EXCEPT ![IndexOfKey(obj, key)].v = text]
    ELSE Append(obj, [k |-> key, v |-> text])

\* delete obj[key]
JsDelete(obj, key) ==
    IF key \in OwnKeys(obj)
    THEN LET i == IndexOfKey(obj, key)
         IN SubSeq(obj, 1, i - 1) \o SubSeq(obj, i + 1, Len(obj))
    ELSE obj

Truthy(v) == v \notin {Undefined, Null, ""}

\* getAbiByName(name)
getAbiByName(name) ==
    LET v == JsGet(savedAbis, name) IN IF Truthy(v) THEN v ELSE Null

\* getSavedAbisList(): Object.keys(savedAbis)
getSavedAbisList == [i \in 1..Len(savedAbis) |-> savedAbis[i].k]

\* validateAbi(text)
validateAbi(text) == ParsesAsJson(text) /\ ParsesAsArray(text)

\* The "invalid format" error saveAbi throws
ErrInvalidFormat == "Error: invalid ABI format, check the JSON"

SaveAccepts(content) == ParsesAsJson(content)

\* What localStorage.setItem does: "ok" when the storage has room, or the
\* QuotaExceededError it throws when the storage is full.
ErrQuotaExceeded == "QuotaExceededError"
SetItemOutcomes == {"ok", ErrQuotaExceeded}

\* The stored item after localStorage.setItem(key, text): a write that
\* throws leaves the item as it was.
SetItem(item, text, setItem) == IF setItem = "ok" THEN text ELSE item

\* saveAbi(name, content): the catch block turns every exception of the
\* try block, that of setItem included, into the "invalid format" error.
saveAbi(name, content, setItem) ==
    IF SaveAccepts(content)
    THEN /\ savedAbis' = JsSet(savedAbis, name, content)
         /\ abiStorage' = SetItem(abiStorage, JSONstringify(savedAbis'),
                                  setItem)
         /\ call' = Called("saveAbi", <<name, content, setItem>>,
                           IF setItem = "ok" THEN "true"
                           ELSE ErrInvalidFormat)
         /\ UNCHANGED <<histVars, ciVars, otherVars>>
    ELSE /\ call' = Called("saveAbi", <<name, content, setItem>>,
                           ErrInvalidFormat)
         /\ UNCHANGED <<abiVars, histVars, ciVars, otherVars>>

\* deleteAbi(name): no try block, an exception of setItem reaches the
\* caller.
deleteAbi(name, setItem) ==
    IF Truthy(JsGet(savedAbis, name))
    THEN /\ savedAbis' = JsDelete(savedAbis, name)
         /\ abiStorage' = SetItem(abiStorage, JSONstringify(savedAbis'),
                                  setItem)
         /\ call' = Called("deleteAbi", <<name, setItem>>,
                           IF setItem = "ok" THEN "true" ELSE setItem)
         /\ UNCHANGED <<histVars, ciVars, otherVars>>
    ELSE /\ call' = Called("deleteAbi", <<name, setItem>>, "false")
         /\ UNCHANGED <<abiVars, histVars, ciVars, otherVars>>

loadSavedAbis ==
    /\ savedAbis' = IF abiStorage # NoItem THEN JSONparseDoc(abiStorage)
                    ELSE savedAbis
    /\ call' = Called("loadSavedAbis", <<>>, "savedAbis")
    /\ UNCHANGED <<abiStorage, histVars, ciVars, otherVars>>

(***************************************************************************)
(* JavaScript values that flow through a contract call: every value is a   *)
(* record of one shape, t naming its type.  A BigNumber carries its        *)
(* integer in n, a string its text in s, an array its elements in items,   *)
(* an object its own keys (insertion order) in keys and their values, in   *)
(* the same order, in items.                                               *)
(***************************************************************************)
JsValue(t, n, s, items, keys) ==
    [t |-> t, n |-> n, s |-> s, items |-> items, keys |-> keys]

Str(s) == JsValue("string", 0, s, <<>>, <<>>)
Big(n) == JsValue("BigNumber", n, "", <<>>, <<>>)
Bool(b) == JsValue("boolean", 0, IF b THEN "true" ELSE "false", <<>>, <<>>)
Arr(items) == JsValue("array", 0, "", items, <<>>)
Obj(keys, items) == JsValue("object", 0, "", items, keys)
UndefinedValue == JsValue("undefined", 0, "", <<>>, <<>>)

Digit(d) == <<"0", "1", "2", "3", "4", "5", "6", "7", "8", "9">>[d + 1]

RECURSIVE NatToString(_)
NatToString(n) ==
    IF n < 10 THEN Digit(n) ELSE NatToString(n \div 10) \o Digit(n % 10)

\* BigNumber.prototype.toString(): the decimal digits
BigNumberToString(n) ==
    IF n < 0 THEN "-" \o NatToString(0 - n) ELSE NatToString(n)

\* ethers.BigNumber.isBigNumber(v)
isBigNumber(v) == v.t = "BigNumber"

\* obj[key] = v on an object literal
ObjSet(obj, key, v) ==
    IF key = "__proto__" THEN obj
    ELSE IF \E i \in 1..Len(obj.keys) : obj.keys[i] = key
    THEN LET i == CHOOSE j \in 1..Len(obj.keys) : obj.keys[j] = key
         IN [obj EXCEPT !.items[i] = v]
    ELSE [obj EXCEPT !.keys = Append(@, key), !.items = Append(@, v)]

(***************************************************************************)
(* ABI documents.  An entry carries the fields the code reads; an ABI      *)
(* value is what this.abi may hold: null, a falsy scalar, a truthy value   *)
(* that is no array, or an array of entries.                               *)
(***************************************************************************)
Param(name, type) == [name |-> name, type |-> type]

Entry(type, name, stateMutability, constant, payable, inputs, outputs) ==
    [type |-> type, name |-> name, stateMutability |-> stateMutability,
     constant |-> constant, payable |-> payable,
     inputs |-> inputs, outputs |-> outputs]

NoEntry == Entry(Null, "", Undefined, FALSE, FALSE, <<>>, <<>>)

FnBalanceOf ==
    Entry("function", "balanceOf", "view", FALSE, FALSE,
          <<Param("owner", "address")>>, <<Param("", "uint256")>>)
FnTransfer ==
    Entry("function", "transfer", "nonpayable", FALSE, FALSE,
          <<Param("to", "address"), Param("amount", "uint256")>>,
          <<Param("", "bool")>>)
FnDeposit ==
    Entry("function", "deposit", "payable", FALSE, FALSE, <<>>, <<>>)
FnAdd ==
    Entry("function", "add", "pure", FALSE, FALSE,
          <<Param("a", "uint256"), Param("b", "uint256")>>,
          <<Param("sum", "uint256")>>)
\* An entry of an old compiler: the constant flag and no stateMutability.
FnTotalSupply ==
    Entry("function", "totalSupply", Undefined, TRUE, FALSE,
          <<>>, <<Param("", "uint256")>>)
FnGetReserves ==
    Entry("function", "getReserves", "view", FALSE, FALSE, <<>>,
          <<Param("reserve0", "uint256"), Param("reserve1", "uint256")>>)
EvApproval ==
    Entry("event", "Approval", Undefined, FALSE, FALSE,
          <<Param("owner", "address")>>, <<>>)
Ctor ==
    Entry("constructor", "", "nonpayable", FALSE, FALSE, <<>>, <<>>)

AbiValue(kind, items) == [kind |-> kind, items |-> items]
AbiNull == AbiValue("null", <<>>)
AbiFalsy == AbiValue("falsy", <<>>)
AbiNonArray == AbiValue("nonarray", <<>>)
AbiArray(items) == AbiValue("array", items)

AbiToken == AbiArray(<<EvApproval, FnBalanceOf, FnTransfer>>)
AbiVault ==
    AbiArray(<<Ctor, FnTotalSupply, FnDeposit, FnAdd, FnGetReserves>>)

\* !!abi
TruthyAbi(a) == a.kind \in {"nonarray", "array"}

\* JSON.parse(text), for a text that parses
JSONparseAbi(text) ==
    CASE text = TextEmptyArray -> AbiArray(<<>>)
      [] text = TextTokenAbi -> AbiToken
      [] text = TextObject -> AbiNonArray
      [] text = TextNumber -> AbiNonArray

(***************************************************************************)
(* ContractInteractor (src/js/modules/contract-interactor.js).             *)
(***************************************************************************)
\* Address texts a user may enter, and ethers.utils.isAddress of each.
AddrLower == "0xde709f2102306220921060314715629080e2fb77"
AddrUpper == "0x52908400098527886E0F7030069857D2E4169EE7"
AddrShort == "0x123"
AddrWords == "my contract"

AddressInputs == {AddrLower, AddrUpper, AddrShort, AddrWords, ""}

isAddress(address) == address \in {AddrLower, AddrUpper}

ErrInvalidAddress == "Error: invalid contract address"
ErrInvalidAbi == "Error: invalid ABI format"
ErrNotReady == "Error: contract not ready, set the address and the ABI first"
ErrNoFunction == "Error: no such function in the contract"
ErrSignerRequired == "Error: a signer is required, connect the wallet first"
ErrTypeError == "TypeError"
ErrLibrary == "Error: the call was rejected"

\* A contract object of the client library: what it was built from, and
\* whether it sends through the provider or through a signer.
Binding(address, abiValue, by) ==
    [address |-> address, abi |-> abiValue, by |-> by]

NoBinding == Binding(Null, AbiNull, "none")

\* What getProvider() and getSigner() return when _initializeContract asks,
\* and what the library then does.
Env(hasProvider, hasSigner, lib) ==
    [hasProvider |-> hasProvider, hasSigner |-> hasSigner, lib |-> lib]

\* What the library does when _initializeContract runs it: both
\* constructions succeed, or the Contract constructor throws, or
\* contract.connect(signer) throws.
LibOutcomes == {"ok", "ctorThrows", "connectThrows"}

\* A variant that derives the signer-backed binding without asking
\* whether there is a signer.
InitializedAnySigner(address, abiValue, c, cws, hasProvider, hasSigner, lib) ==
    IF ~Truthy(address) \/ ~TruthyAbi(abiValue) THEN <<c, cws>>
    ELSE IF ~hasProvider THEN <<c, cws>>
    ELSE IF lib = "ctorThrows" THEN <<c, cws>>
    ELSE LET made == Binding(address, abiValue, "provider")
         IN IF lib = "connectThrows" THEN <<made, cws>>
            ELSE <<made, Binding(made.address, made.abi, "signer")>>

\* _initializeContract: the bindings <<contract, contractWithSigner>> it
\* leaves, from the bindings c and cws it finds.
Initialized(address, abiValue, c, cws, hasProvider, hasSigner, lib) ==
    IF ~Truthy(address) \/ ~TruthyAbi(abiValue) THEN <<c, cws>>
    ELSE IF ~hasProvider THEN <<c, cws>>
    ELSE IF lib = "ctorThrows" THEN <<c, cws>>
    ELSE LET made == Binding(address, abiValue, "provider")
         IN IF hasSigner
            THEN IF lib = "connectThrows" THEN <<made, cws>>
                 ELSE <<made, Binding(made.address, made.abi, "signer")>>
            ELSE <<made, cws>>

\* A variant that stores the address before validating it.
AddressAfterSetEager(address) == address

\* The address setContractAddress leaves stored
AddressAfterSet(address) ==
    IF isAddress(address) THEN address ELSE contractAddress

setContractAddress(address, hasProvider, hasSigner, lib) ==
    LET stored == AddressAfterSet(address)
        made == Initialized(stored, abi, contract, contractWithSigner,
                            hasProvider, hasSigner, lib)
    IN /\ contractAddress' = stored
       /\ IF isAddress(address)
          THEN /\ contract' = made[1]
               /\ contractWithSigner' = made[2]
               /\ call' = Called("setContractAddress",
                                 <<address, Env(hasProvider, hasSigner, lib)>>,
                                 "true")
          ELSE /\ UNCHANGED <<contract, contractWithSigner>>
               /\ call' = Called("setContractAddress",
                                 <<address, Env(hasProvider, hasSigner, lib)>>,
                                 ErrInvalidAddress)
       /\ result' = UndefinedValue
       /\ UNCHANGED <<abi, pending, given, histVars, abiVars,
                   otherVars>>

\* The arguments setAbi is called with: a JSON string or a parsed value.
AbiText(text) == [isText |-> TRUE, text |-> text, value |-> AbiNull]
AbiParsed(value) == [isText |-> FALSE, text |-> "", value |-> value]

AbiArguments ==
    {AbiText(t) : t \in {TextTokenAbi, TextEmptyArray, TextTruncated}}
    \cup {AbiParsed(v) : v \in {AbiNull, AbiFalsy, AbiNonArray, AbiVault}}

setAbi(arg, hasProvider, hasSigner, lib) ==
    IF arg.isText /\ ~ParsesAsJson(arg.text)
    THEN /\ call' = Called("setAbi",
                           <<arg, Env(hasProvider, hasSigner, lib)>>,
                           ErrInvalidAbi)
         /\ result' = UndefinedValue
         /\ UNCHANGED <<contractAddress, abi, contract, contractWithSigner,
                        pending, given, histVars, abiVars,
                   otherVars>>
    ELSE LET parsed == IF arg.isText THEN JSONparseAbi(arg.text) ELSE arg.value
             made == Initialized(contractAddress, parsed, contract,
                                 contractWithSigner, hasProvider, hasSigner, lib)
         IN /\ abi' = parsed
            /\ contract' = made[1]
            /\ contractWithSigner' = made[2]
            /\ call' = Called("setAbi",
                              <<arg, Env(hasProvider, hasSigner, lib)>>,
                              "true")
            /\ result' = UndefinedValue
            /\ UNCHANGED <<contractAddress, pending, given, histVars, abiVars,
                   otherVars>>

\* isContractReady()
isContractReady ==
    /\ Truthy(contractAddress)
    /\ TruthyAbi(abi)
    /\ (contract # NoBinding \/ contractWithSigner # NoBinding)

\* The arguments of a helper call, and none.
Input(raw, outputDefinitions) == [raw |-> raw, outputs |-> outputDefinitions]
NoInput == Input(UndefinedValue, <<>>)

\* A variant that keeps every entry that is not an event.
IsFunctionEntryLoose(item) == item.type # "event"

\* item.type === 'function'
IsFunctionEntry(item) == item.type = "function"

\* The descriptor getAvailableFunctions makes of a function entry
Descriptor(func) ==
    [name |-> func.name, type |-> func.stateMutability,
     inputs |-> func.inputs, outputs |-> func.outputs,
     constant |-> func.constant,
     payable |-> (func.payable \/ func.stateMutability = "payable")]

\* getAvailableFunctions(), for an ABI that is unset or an array
AvailableFunctions(abiValue) ==
    IF ~TruthyAbi(abiValue) THEN <<>>
    ELSE LET funcs == SelectSeq(abiValue.items, IsFunctionEntry)
         IN [i \in 1..Len(funcs) |-> Descriptor(funcs[i])]

\* A variant that matches the name alone, whatever the entry's type.
getFunctionDetailsAnyType(functionName) ==
    LET hits == {i \in 1..Len(abi.items) : abi.items[i].name = functionName}
    IN IF ~TruthyAbi(abi) \/ hits = {} THEN NoEntry
       ELSE abi.items[CHOOSE i \in hits : \A j \in hits : i <= j]

\* getFunctionDetails(functionName), for an ABI that is unset or an array:
\* the first function entry of that name, or null
getFunctionDetails(functionName) ==
    LET hits == {i \in 1..Len(abi.items) :
                    /\ IsFunctionEntry(abi.items[i])
                    /\ abi.items[i].name = functionName}
    IN IF ~TruthyAbi(abi) \/ hits = {} THEN NoEntry
       ELSE abi.items[CHOOSE i \in hits : \A j \in hits : i <= j]

\* type.includes('[]')
TypeIncludesArray(type) == type \in {"uint256[]", "address[]"}

\* type.startsWith('uint') || type.startsWith('int')
TypeStartsInt(type) == type \in {"uint256", "uint8", "int256", "uint256[]"}

RECURSIVE JoinStrings(_)
JoinStrings(items) ==
    IF items = <<>> THEN ""
    ELSE IF Len(items) = 1 THEN items[1].s
    ELSE items[1].s \o "," \o JoinStrings(Tail(items))

\* value.toString()
ToStringOf(value) ==
    IF value.t = "array" THEN JoinStrings(value.items)
    ELSE IF value.t = "BigNumber" THEN BigNumberToString(value.n)
    ELSE value.s

\* Boolean(value)
ToBoolean(value) ==
    IF value.t = "string" THEN value.s # ""
    ELSE IF value.t = "boolean" THEN value.s = "true"
    ELSE TRUE

ProcessParam(input, value) ==
    IF value.t = "undefined" THEN UndefinedValue
    ELSE IF TypeIncludesArray(input.type) /\ value.t = "array" THEN value
    ELSE IF TypeStartsInt(input.type) THEN Str(ToStringOf(value))
    ELSE IF input.type = "bool" THEN Bool(ToBoolean(value))
    ELSE value

\* _processParams(inputDefinitions, params)
processParams(inputDefinitions, params) ==
    [i \in 1..Len(inputDefinitions) |->
        ProcessParam(inputDefinitions[i],
                     IF i <= Len(params) THEN params[i] ELSE UndefinedValue)]

\* The key _formatResult files the output at position i (from 1) under
OutputKey(output, i) ==
    IF output.name # "" THEN output.name ELSE "output_" \o NatToString(i - 1)

\* The object _formatResult builds from the first k outputs
RECURSIVE Projected(_, _, _)
Projected(items, outputDefinitions, k) ==
    IF k = 0 THEN Obj(<<>>, <<>>)
    ELSE LET value == IF k <= Len(items) THEN items[k] ELSE UndefinedValue
         IN ObjSet(Projected(items, outputDefinitions, k - 1),
                   OutputKey(outputDefinitions[k], k),
                   IF isBigNumber(value) THEN Str(BigNumberToString(value.n))
                   ELSE value)

\* _formatResult(result, outputDefinitions)
formatResult(raw, outputDefinitions) ==
    IF isBigNumber(raw) THEN Str(BigNumberToString(raw.n))
    ELSE IF raw.t = "array" /\ Len(outputDefinitions) > 1
    THEN Projected(raw.items, outputDefinitions, Len(outputDefinitions))
    ELSE raw

\* A variant that overlooks the legacy constant flag.
isReadOnlyByMutability(funcDetails) ==
    funcDetails.stateMutability \in {"view", "pure"}

\* isReadOnly in callFunction
isReadOnly(funcDetails) ==
    \/ funcDetails.stateMutability = "view"
    \/ funcDetails.stateMutability = "pure"
    \/ funcDetails.constant

\* isPayable in callFunction
isPayable(funcDetails) ==
    funcDetails.stateMutability = "payable" \/ funcDetails.payable

\* ethers.utils.parseEther of the ETH amounts a caller passes
ParseEther(value) ==
    CASE value = "1.5" -> "1500000000000000000"
      [] value = "0.01" -> "10000000000000000"

EthValues == {"", "1.5"}

ParamLists == {<<Str(AddrLower), Str("7")>>}

FunctionNames == {"balanceOf", "transfer", "deposit", "add", "totalSupply",
                  "getReserves", "Approval", "mint"}

\* A call in flight: the binding it was dispatched through and what the
\* continuation still needs.
Dispatched(functionName, via, binding, args, value, outputs, stage) ==
    [fn |-> functionName, via |-> via, binding |-> binding, args |-> args,
     value |-> value, outputs |-> outputs, stage |-> stage]

NoDispatch == Dispatched("", "none", NoBinding, <<>>, "", <<>>, "none")

\* callFunction up to its first await: the error it throws, or the call it
\* dispatches.
CallOutcome(functionName, params, value) ==
    LET funcDetails == getFunctionDetails(functionName)
        Fail(error) == [error |-> error, dispatched |-> NoDispatch]
        Dispatch(via, binding, txValue) ==
            [error |-> NoError,
             dispatched |->
                 Dispatched(functionName, via, binding,
                            processParams(funcDetails.inputs, params),
                            txValue, funcDetails.outputs, "call")]
    IN IF ~isContractReady THEN Fail(ErrNotReady)
       ELSE IF abi.kind # "array" THEN Fail(ErrTypeError)
       ELSE IF funcDetails = NoEntry THEN Fail(ErrNoFunction)
       ELSE IF isReadOnly(funcDetails)
       THEN IF contract = NoBinding THEN Fail(ErrTypeError)
            ELSE Dispatch("read", contract, "")
       ELSE IF contractWithSigner = NoBinding THEN Fail(ErrSignerRequired)
       ELSE Dispatch("write", contractWithSigner,
                     IF isPayable(funcDetails) /\ Truthy(value)
                     THEN ParseEther(value) ELSE "")

callFunction(functionName, params, value) ==
    LET outcome == CallOutcome(functionName, params, value)
    IN /\ IF outcome.error # NoError
          THEN /\ call' = Called("callFunction", <<functionName>>,
                                 outcome.error)
               /\ UNCHANGED pending
          ELSE /\ pending' = Append(pending, outcome.dispatched)
               /\ call' = Called("callFunction", <<functionName>>, "pending")
       /\ result' = UndefinedValue
       /\ UNCHANGED <<contractAddress, abi, contract, contractWithSigner,
                      given, histVars, abiVars, otherVars>>

\* Raw values the library resolves a read call with.
RawResults == {Big(2000000000), Arr(<<Big(7), Str("0x")>>)}

Without(seq, i) == SubSeq(seq, 1, i - 1) \o SubSeq(seq, i + 1, Len(seq))

\* The receipt object callFunction returns for a mined transaction
Receipt(status) ==
    Obj(<<"transactionHash", "blockNumber", "status", "events", "receipt">>,
        <<Str("0xhash"), Str("block"),
          Str(IF status = 1 THEN "success" ELSE "failure"),
          Arr(<<>>), Obj(<<"status">>, <<Str(NatToString(status))>>)>>)

\* A variant that swallows a rejection and returns nothing.
SettleOutcomeSwallowing(p, resolved, raw, status) ==
    IF ~resolved
    THEN [state |-> "returned", result |-> UndefinedValue]
    ELSE IF p.via = "read"
    THEN [state |-> "returned", result |-> formatResult(raw, p.outputs)]
    ELSE IF p.stage = "call"
    THEN [state |-> "sent", result |-> UndefinedValue]
    ELSE [state |-> "returned", result |-> Receipt(status)]

\* callFunction after an await, for the call p in flight whose promise
\* settles, resolved (with raw, or a receipt of the status) or rejected:
\* it throws, returns a result, or goes on to await the mining.
SettleOutcome(p, resolved, raw, status) ==
    IF ~resolved
    THEN [state |-> "threw", result |-> UndefinedValue]
    ELSE IF p.via = "read"
    THEN [state |-> "returned", result |-> formatResult(raw, p.outputs)]
    ELSE IF p.stage = "call"
    THEN [state |-> "sent", result |-> UndefinedValue]
    ELSE [state |-> "returned", result |-> Receipt(status)]

\* The promise of the i-th call in flight settles.
settle(i, resolved, raw, status) ==
    LET p == pending[i]
        done == <<p.fn, p.via>>
        outcome == SettleOutcome(p, resolved, raw, status)
    IN /\ pending' = IF outcome.state = "sent"
                     THEN [pending EXCEPT ![i].stage = "wait"]
                     ELSE Without(pending, i)
       /\ result' = outcome.result
       /\ call' = IF outcome.state = "threw"
                  THEN Called("callFunction.settled", done, ErrLibrary)
                  ELSE IF outcome.state = "sent"
                  THEN Called("callFunction.sent", done, "pending")
                  ELSE Called("callFunction.settled", done, "returned")
       /\ UNCHANGED <<contractAddress, abi, contract, contractWithSigner,
                      given, histVars, abiVars, otherVars>>

\* getAvailableFunctions() as a call: on a truthy ABI that is no array,
\* this.abi.filter is not a function.
getAvailableFunctions ==
    /\ IF abi.kind = "nonarray"
       THEN /\ result' = UndefinedValue
            /\ call' = Called("getAvailableFunctions", <<>>, ErrTypeError)
       ELSE /\ result' = AvailableFunctions(abi)
            /\ call' = Called("getAvailableFunctions", <<>>, "returned")
    /\ UNCHANGED <<contractAddress, abi, contract, contractWithSigner,
                   pending, given, histVars, abiVars,
                   otherVars>>

\* _formatResult applied to the arguments in given
applyFormatResult ==
    /\ result' = formatResult(given.raw, given.outputs)
    /\ call' = Called("_formatResult", <<>>, "returned")
    /\ UNCHANGED <<contractAddress, abi, contract, contractWithSigner,
                   pending, given, histVars, abiVars,
                   otherVars>>

(***************************************************************************)
(* MetaMaskConnector (src/unnamed/part_001, lines 181-375) and the part of *)
(* UIManager its callbacks drive.                                          *)
(***************************************************************************)
NoNotification == [type |-> "none", title |-> "", message |-> ""]

\* MetaMaskConnector after construction
InitConnector ==
    /\ isConnected = FALSE
    /\ currentAddress = Null
    /\ currentChainId = Null
    /\ provider = Null
    /\ signer = Null
    /\ requests = <<>>
    /\ fired = <<>>

\* The page as index.html draws it: not connected, the button enabled.
InitUi ==
    /\ statusConnected = FALSE
    /\ buttonDisabled = FALSE
    /\ clicks = <<>>
    /\ shown = NoNotification
    /\ uncaught = NoError

\* UIManager.updateConnectionStatus(isConnected, address): the status and
\* the button it leaves, and whether it threw on the way (address.substring
\* of null, after the status element was already marked connected).
UpdateConnectionStatus(connected, address) ==
    IF connected
    THEN IF address = Null
         THEN [status |-> TRUE, button |-> buttonDisabled, threw |-> TRUE]
         ELSE [status |-> TRUE, button |-> TRUE, threw |-> FALSE]
    ELSE [status |-> FALSE, button |-> FALSE, threw |-> FALSE]

\* The callbacks main.js hands to the connector (lines 13-30), as the UI
\* update each one makes.
onConnected(address) == UpdateConnectionStatus(TRUE, address)
onDisconnected == UpdateConnectionStatus(FALSE, "")
onAccountsChanged(accounts) ==
    IF Len(accounts) > 0 THEN UpdateConnectionStatus(TRUE, accounts[1])
    ELSE UpdateConnectionStatus(FALSE, "")

Account1 == "0x1111111111111111111111111111111111111111"
Account2 == "0x2222222222222222222222222222222222222222"
AccountLists == {<<>>, <<Account1>>, <<Account2, Account1>>}
ChainIds == {"0x1", "0x89"}
Web3Provider == "<Web3Provider>"
JsonRpcSigner == "<JsonRpcSigner>"

ErrNotInstalled == "Error: MetaMask is not installed"
ErrNoAccount == "Error: no authorized account"
ErrRequestRejected == "Error: the wallet rejected the request"

\* The 'chainChanged' listener
chainChanged(chainId) ==
    /\ ethereum
    /\ currentChainId' = chainId
    /\ fired' = <<"onChainChanged">>
    /\ call' = Called("chainChanged", <<chainId>>, "handled")
    /\ UNCHANGED <<outsideVars, ethereum, isConnected, currentAddress, provider, signer,
                   requests, uiVars, histVars, abiVars, ciVars>>

\* A listener that does not tell the empty list apart.
accountsChangedAnyList(accounts) ==
    /\ ethereum
    /\ isConnected' = isConnected
    /\ currentAddress' = IF Len(accounts) = 0 THEN Undefined ELSE accounts[1]
    /\ fired' = <<"onAccountsChanged">>
    /\ statusConnected' = onAccountsChanged(accounts).status
    /\ buttonDisabled' = onAccountsChanged(accounts).button
    /\ call' = Called("accountsChanged", <<accounts>>, "handled")
    /\ UNCHANGED <<outsideVars, ethereum, currentChainId, provider, signer, requests,
                   clicks, shown, uncaught, histVars, abiVars, ciVars>>

\* The 'accountsChanged' listener
accountsChanged(accounts) ==
    /\ ethereum
    /\ IF Len(accounts) = 0
       THEN /\ isConnected' = FALSE
            /\ currentAddress' = Null
            /\ fired' = <<"onDisconnected">>
            /\ statusConnected' = onDisconnected.status
            /\ buttonDisabled' = onDisconnected.button
       ELSE /\ isConnected' = isConnected
            /\ currentAddress' = accounts[1]
            /\ fired' = <<"onAccountsChanged">>
            /\ statusConnected' = onAccountsChanged(accounts).status
            /\ buttonDisabled' = onAccountsChanged(accounts).button
    /\ call' = Called("accountsChanged", <<accounts>>, "handled")
    /\ UNCHANGED <<outsideVars, ethereum, currentChainId, provider, signer, requests,
                   clicks, shown, uncaught, histVars, abiVars, ciVars>>

\* What the 'disconnect' listener and disconnect() both do
Disconnected(op) ==
    /\ isConnected' = FALSE
    /\ currentAddress' = Null
    /\ fired' = <<"onDisconnected">>
    /\ statusConnected' = onDisconnected.status
    /\ buttonDisabled' = onDisconnected.button
    /\ call' = Called(op, <<>>, "handled")
    /\ UNCHANGED <<outsideVars, ethereum, currentChainId, provider, signer, requests,
                   clicks, shown, uncaught, histVars, abiVars, ciVars>>

\* The 'disconnect' listener
disconnectEvent == ethereum /\ Disconnected("disconnect event")

\* disconnect()
disconnect == Disconnected("disconnect")

\* showError(title, message)
ErrorNotification(title, message) ==
    [type |-> "error", title |-> title, message |-> message]

TitleConnectFailed == "connecting the wallet failed"

\* A connect() or checkConnection() call suspended at an await: on the
\* accounts request, or on the eth_chainId request.
Request(op, pc) == [op |-> op, pc |-> pc]

\* How many connect()/checkConnection() calls may be suspended together.
MaxRequests == 2

\* What the wallet answers an accounts request with: it rejects, or it
\* resolves with a list of accounts.
AccountAnswers ==
    {[ok |-> FALSE, accounts |-> <<>>]}
    \cup {[ok |-> TRUE, accounts |-> a] : a \in AccountLists}

\* The suspended call i ends: connect() throws the error to the click
\* handler, which shows it (lines 49-55); checkConnection() swallows it
\* and returns false (lines 264-267).
RequestFailed(i, error) ==
    /\ requests' = Without(requests, i)
    /\ IF requests[i].op = "connect"
       THEN /\ shown' = ErrorNotification(TitleConnectFailed, error)
            /\ call' = Called("connect.settled", <<>>, error)
       ELSE /\ shown' = NoNotification
            /\ call' = Called("checkConnection.settled", <<>>, "false")
    /\ uncaught' = NoError

\* The connect button is clicked: connect() up to its first await.
connect ==
    /\ ~buttonDisabled
    /\ Len(requests) < MaxRequests
    /\ IF ~ethereum
       THEN /\ shown' = ErrorNotification(TitleConnectFailed, ErrNotInstalled)
            /\ call' = Called("connect.settled", <<>>, ErrNotInstalled)
            /\ UNCHANGED requests
       ELSE /\ requests' = Append(requests, Request("connect", "accounts"))
            /\ shown' = NoNotification
            /\ call' = Called("connect", <<>>, "pending")
    /\ fired' = <<>>
    /\ uncaught' = NoError
    /\ UNCHANGED <<outsideVars, ethereum, isConnected, currentAddress, currentChainId,
                   provider, signer, statusConnected, buttonDisabled,
                   clicks, histVars, abiVars, ciVars>>

\* checkConnection() up to its first await
checkConnection ==
    /\ Len(requests) < MaxRequests
    /\ IF ~ethereum
       THEN /\ call' = Called("checkConnection.settled", <<>>, "false")
            /\ UNCHANGED requests
       ELSE /\ requests' =
                  Append(requests, Request("checkConnection", "accounts"))
            /\ call' = Called("checkConnection", <<>>, "pending")
    /\ fired' = <<>>
    /\ UNCHANGED <<outsideVars, ethereum, isConnected, currentAddress, currentChainId,
                   provider, signer, uiVars, histVars, abiVars, ciVars>>

\* The accounts request of the suspended call i settles.
accountsAnswered(i, answer) ==
    /\ requests[i].pc = "accounts"
    /\ IF ~answer.ok
       THEN /\ RequestFailed(i, ErrRequestRejected)
            /\ UNCHANGED <<isConnected, currentAddress>>
       ELSE IF Len(answer.accounts) = 0
       THEN /\ RequestFailed(i, ErrNoAccount)
            /\ UNCHANGED <<isConnected, currentAddress>>
       ELSE /\ isConnected' = TRUE
            /\ currentAddress' = answer.accounts[1]
            /\ requests' = [requests EXCEPT ![i].pc = "chainId"]
            /\ call' = Called(requests[i].op, <<>>, "awaiting eth_chainId")
            /\ shown' = NoNotification
            /\ uncaught' = NoError
    /\ fired' = <<>>
    /\ UNCHANGED <<outsideVars, ethereum, currentChainId, provider, signer, clicks,
                   statusConnected, buttonDisabled, histVars, abiVars, ciVars>>

\* The eth_chainId request of the suspended call i settles.
chainIdAnswered(i, ok, chainId) ==
    /\ requests[i].pc = "chainId"
    /\ IF ~ok
       THEN /\ RequestFailed(i, ErrRequestRejected)
            /\ fired' = <<>>
            /\ UNCHANGED <<currentChainId, provider, signer,
                           statusConnected, buttonDisabled>>
       ELSE LET ui == onConnected(currentAddress)
            IN /\ currentChainId' = chainId
               /\ provider' = Web3Provider
               /\ signer' = JsonRpcSigner
               /\ fired' = <<"onConnected">>
               /\ statusConnected' = ui.status
               /\ buttonDisabled' = ui.button
               /\ IF ui.threw
                  THEN RequestFailed(i, ErrTypeError)
                  ELSE /\ requests' = Without(requests, i)
                       /\ shown' = NoNotification
                       /\ uncaught' = NoError
                       /\ call' = Called(requests[i].op \o ".settled", <<>>,
                                         IF requests[i].op = "connect"
                                         THEN currentAddress ELSE "true")
    /\ UNCHANGED <<outsideVars, ethereum, isConnected, currentAddress, clicks, histVars,
                   abiVars, ciVars>>

(***************************************************************************)
(* The static file server (src/unnamed/part_000).                          *)
(***************************************************************************)
\* Request URLs, and the paths of the document root that may hold a file,
\* hold something readFile cannot read (a directory), or hold nothing.
Urls == {"/", "/index.html", "/css/style.css", "/js", "/logo.svg", "/LICENSE"}
StoredPaths == {"./index.html", "./css/style.css", "./js", "./LICENSE"}
FileStates == {"file", "missing", "unreadable"}

\* path.extname of the paths requested
ExtName(filePath) ==
    CASE filePath = "./index.html" -> ".html"
      [] filePath = "./css/style.css" -> ".css"
      [] filePath = "./logo.svg" -> ".svg"
      [] OTHER -> ""

\* MIME_TYPES[extname] || 'text/plain'
MimeType(extname) ==
    CASE extname = ".html" -> "text/html"
      [] extname = ".css" -> "text/css"
      [] extname = ".js" -> "application/javascript"
      [] extname = ".json" -> "application/json"
      [] extname = ".png" -> "image/png"
      [] extname = ".jpg" -> "image/jpeg"
      [] extname = ".jpeg" -> "image/jpeg"
      [] extname = ".gif" -> "image/gif"
      [] extname = ".svg" -> "image/svg+xml"
      [] extname = ".ico" -> "image/x-icon"
      [] OTHER -> "text/plain"

\* The path the handler reads for a URL
FilePath(reqUrl) == IF "." \o reqUrl = "./" THEN "./index.html" ELSE "." \o reqUrl

\* fs.readFile(filePath): the content, or the code of the error
ReadFile(filePath) ==
    IF filePath \notin StoredPaths \/ files[filePath] = "missing"
    THEN [ok |-> FALSE, code |-> "ENOENT", content |-> ""]
    ELSE IF files[filePath] = "unreadable"
    THEN [ok |-> FALSE, code |-> "EISDIR", content |-> ""]
    ELSE [ok |-> TRUE, code |-> "", content |-> "content of " \o filePath]

\* A request whose readFile is under way: the first read, or the read of
\* the fallback document.
Serving(id, reqUrl, filePath, contentType, reading) ==
    [id |-> id, url |-> reqUrl, filePath |-> filePath,
     contentType |-> contentType, reading |-> reading]

\* res.writeHead(status, {'Content-Type': contentType}); res.end(body)
Response(req, status, contentType, body) ==
    [id |-> req.id, url |-> req.url, status |-> status,
     contentType |-> contentType, body |-> body]

NoContentType == ""

\* How many requests the server gets in a run.
MaxServed == 2

\* A request arrives: the handler up to fs.readFile (lines 20-34).
request(reqUrl) ==
    LET id == Len(responses) + Len(serving) + 1
        filePath == FilePath(reqUrl)
    IN /\ id <= MaxServed
       /\ serving' = Append(serving,
              Serving(id, reqUrl, filePath, MimeType(ExtName(filePath)),
                      "first"))
       /\ call' = Called("request", <<reqUrl>>, "reading")
       /\ UNCHANGED <<files, responses, histVars, abiVars, ciVars,
                      walletVars, uiVars, tabVars>>

\* A variant that falls back to the root document on every error.
readFileCallbackAnyError(i) ==
    LET req == serving[i]
        read == ReadFile(req.filePath)
    IN /\ req.reading = "first"
       /\ IF ~read.ok
          THEN /\ serving' = [serving EXCEPT ![i].reading = "fallback"]
               /\ UNCHANGED responses
          ELSE /\ serving' = Without(serving, i)
               /\ responses' =
                      Append(responses,
                             Response(req, 200, req.contentType, read.content))
       /\ call' = Called("readFile callback", <<req.id>>, "done")
       /\ UNCHANGED <<files, histVars, abiVars, ciVars, walletVars, uiVars,
                   tabVars>>

\* The callback of the first readFile (lines 34-57)
readFileCallback(i) ==
    LET req == serving[i]
        read == ReadFile(req.filePath)
    IN /\ req.reading = "first"
       /\ IF ~read.ok /\ read.code = "ENOENT"
          THEN /\ serving' = [serving EXCEPT ![i].reading = "fallback"]
               /\ UNCHANGED responses
          ELSE /\ serving' = Without(serving, i)
               /\ responses' =
                      Append(responses,
                             IF ~read.ok
                             THEN Response(req, 500, NoContentType,
                                           "Server Error: " \o read.code)
                             ELSE Response(req, 200, req.contentType,
                                           read.content))
       /\ call' = Called("readFile callback", <<req.id>>, "done")
       /\ UNCHANGED <<files, histVars, abiVars, ciVars, walletVars, uiVars,
                   tabVars>>

\* The callback of the readFile of './index.html' (lines 38-46)
fallbackCallback(i) ==
    LET req == serving[i]
        read == ReadFile("./index.html")
    IN /\ req.reading = "fallback"
       /\ serving' = Without(serving, i)
       /\ responses' =
              Append(responses,
                     IF ~read.ok
                     THEN Response(req, 500, NoContentType,
                                   "Error loading index.html")
                     ELSE Response(req, 200, "text/html", read.content))
       /\ call' = Called("fallback callback", <<req.id>>, "done")
       /\ UNCHANGED <<files, histVars, abiVars, ciVars, walletVars, uiVars,
                   tabVars>>

\* No static server runs next to the page.
InitServerIdle ==
    /\ files = <<>>
    /\ serving = <<>>
    /\ responses = <<>>

\* The page is open in no other tab.
InitTabsIdle == tabs = <<>>

\* The components a specification does not drive stay as constructed.
InitElsewhere ==
    /\ ethereum = FALSE
    /\ InitConnector
    /\ InitUi
    /\ InitServerIdle
    /\ InitTabsIdle

(***************************************************************************)
(* The event handlers of main.js (src/unnamed/part_001, lines 9-176).     *)
(* The interactor's getProvider and getSigner read the connector.          *)
(***************************************************************************)
TitleSaveFailed == "saving failed"
TitleAbiParseFailed == "parsing the ABI failed"
TitleCallFailed == "the call failed"
MsgEmptyAbi == "the ABI text is empty"
MsgSelectFunction == "select a contract function"
MsgNotSet == "the contract address or the ABI is not set"
ErrSyntaxError == "SyntaxError"

SuccessNotification(message) ==
    [type |-> "success", title |-> "", message |-> message]

\* Texts typed with blanks around them, and String.prototype.trim
TextBlank == "  "
AddrPadded == " 0xde709f2102306220921060314715629080e2fb77 "
Trim(text) ==
    IF text = TextBlank THEN ""
    ELSE IF text = AddrPadded THEN AddrLower
    ELSE text

\* The bindings _initializeContract leaves for an address and an ABI, with
\* the provider and the signer the connector holds at that moment.
InitializedNow(address, abiValue, lib) ==
    Initialized(address, abiValue, contract, contractWithSigner,
                provider # Null, signer # Null, lib)

\* What a handler leaves when it returns: the notification it showed and
\* the error that escaped it.
Handled(op, arg, notification, escaped) ==
    /\ shown' = notification
    /\ uncaught' = escaped
    /\ call' = Called(op, arg,
                      IF escaped # NoError THEN escaped
                      ELSE IF notification.type = "error"
                      THEN notification.message
                      ELSE "done")

\* The click handler of the save button (lines 58-75); abiName is what
\* prompt() returned.
onSaveAbiClick(text, abiName) ==
    LET abiText == Trim(text)
        op == "saveAbiBtn click"
    IN /\ IF abiText = ""
          THEN /\ Handled(op, <<text, abiName>>,
                          ErrorNotification(TitleSaveFailed, MsgEmptyAbi),
                          NoError)
               /\ UNCHANGED abiVars
          ELSE IF ~Truthy(abiName)
          THEN /\ Handled(op, <<text, abiName>>, NoNotification, NoError)
               /\ UNCHANGED abiVars
          ELSE IF SaveAccepts(abiText)
          THEN /\ savedAbis' = JsSet(savedAbis, abiName, abiText)
               /\ abiStorage' = JSONstringify(savedAbis')
               /\ Handled(op, <<text, abiName>>,
                          SuccessNotification("ABI saved"), NoError)
          ELSE /\ Handled(op, <<text, abiName>>,
                          ErrorNotification(TitleSaveFailed, ErrInvalidFormat),
                          NoError)
               /\ UNCHANGED abiVars
       /\ UNCHANGED <<histVars, ciVars, outsideVars, walletVars, statusConnected,
                      buttonDisabled, clicks>>

\* What both ABI handlers do with the ABI text (lines 85-91 and 99-105):
\* JSON.parse, setAbi of the parsed value, getAvailableFunctions.
AbiTextApplied(op, arg, abiText, lib) ==
    IF ~ParsesAsJson(abiText)
    THEN /\ Handled(op, arg,
                    ErrorNotification(TitleAbiParseFailed, ErrSyntaxError),
                    NoError)
         /\ UNCHANGED <<abi, contract, contractWithSigner>>
    ELSE LET parsedAbi == JSONparseAbi(abiText)
             made == InitializedNow(contractAddress, parsedAbi, lib)
         IN /\ abi' = parsedAbi
            /\ contract' = made[1]
            /\ contractWithSigner' = made[2]
            /\ IF parsedAbi.kind = "nonarray"
               THEN Handled(op, arg,
                            ErrorNotification(TitleAbiParseFailed,
                                              ErrTypeError),
                            NoError)
               ELSE Handled(op, arg, NoNotification, NoError)

\* The change handler of the saved-ABI selector (lines 78-93)
onSavedAbisChange(selectedAbiName, lib) ==
    /\ IF selectedAbiName = ""
       THEN /\ Handled("savedAbis change", <<selectedAbiName>>,
                       NoNotification, NoError)
            /\ UNCHANGED <<abi, contract, contractWithSigner>>
       ELSE AbiTextApplied("savedAbis change", <<selectedAbiName>>,
                           getAbiByName(selectedAbiName), lib)
    /\ result' = UndefinedValue
    /\ UNCHANGED <<contractAddress, pending, given, histVars, abiVars,
                   outsideVars, walletVars, statusConnected, buttonDisabled, clicks>>

\* The change handler of the ABI text area (lines 96-107)
onAbiInputChange(text, lib) ==
    /\ IF Trim(text) = ""
       THEN /\ Handled("abiInput change", <<text>>, NoNotification, NoError)
            /\ UNCHANGED <<abi, contract, contractWithSigner>>
       ELSE AbiTextApplied("abiInput change", <<text>>, Trim(text), lib)
    /\ result' = UndefinedValue
    /\ UNCHANGED <<contractAddress, pending, given, histVars, abiVars,
                   outsideVars, walletVars, statusConnected, buttonDisabled, clicks>>

\* The change handler of the address field (lines 110-115): it calls
\* setContractAddress outside any try.
onContractAddressChange(text, lib) ==
    LET address == Trim(text)
        stored == AddressAfterSet(address)
        made == InitializedNow(stored, abi, lib)
        op == "contractAddress change"
    IN /\ IF address = ""
          THEN /\ Handled(op, <<text>>, NoNotification, NoError)
               /\ UNCHANGED <<contractAddress, contract, contractWithSigner>>
          ELSE IF ~isAddress(address)
          THEN /\ Handled(op, <<text>>, NoNotification, ErrInvalidAddress)
               /\ contractAddress' = stored
               /\ UNCHANGED <<contract, contractWithSigner>>
          ELSE /\ Handled(op, <<text>>, NoNotification, NoError)
               /\ contractAddress' = stored
               /\ contract' = made[1]
               /\ contractWithSigner' = made[2]
       /\ result' = UndefinedValue
       /\ UNCHANGED <<abi, pending, given, histVars, abiVars, outsideVars, walletVars,
                      statusConnected, buttonDisabled, clicks>>

\* The record the call handler adds to the history (lines 149-155); the
\* timestamp is the sequence number of the addition.
HistoryEntry(timestamp, address, functionName, params, res) ==
    [timestamp |-> timestamp, address |-> address, function |-> functionName,
     params |-> params, result |-> res]

\* The locals a suspended call handler keeps: functionName and params.
Click(functionName, params) == [functionName |-> functionName, params |-> params]

\* How many calls may be in flight together, and how many entries the
\* call handler may add in a run.
MaxInFlight == 2
MaxRecorded == 2

\* The click handler of the call button (lines 129-143), up to the await
\* of callFunction; callFunction gets no options.
onCallFunctionClick(functionName, params) ==
    LET op == "callFunction click"
        outcome == CallOutcome(functionName, params, "")
        Refused(message) ==
            /\ Handled(op, <<functionName>>,
                       ErrorNotification(TitleCallFailed, message), NoError)
            /\ UNCHANGED <<pending, clicks>>
    IN /\ Len(pending) < MaxInFlight
       /\ nextEntry + Len(pending) <= MaxRecorded
       /\ IF functionName = "" THEN Refused(MsgSelectFunction)
          ELSE IF ~isContractReady THEN Refused(MsgNotSet)
          ELSE IF outcome.error # NoError THEN Refused(outcome.error)
          ELSE /\ pending' = Append(pending, outcome.dispatched)
               /\ clicks' = Append(clicks, Click(functionName, params))
               /\ Handled(op, <<functionName>>, NoNotification, NoError)
       /\ result' = UndefinedValue
       /\ UNCHANGED <<contractAddress, abi, contract, contractWithSigner,
                      given, histVars, abiVars, outsideVars, walletVars, statusConnected,
                      buttonDisabled>>

\* The call handler after its await (lines 143-161): the promise of the
\* i-th call in flight settles; a result is shown and recorded with the
\* address the interactor holds now, an error is shown.
onCallSettled(i, resolved, raw, status) ==
    LET p == pending[i]
        outcome == SettleOutcome(p, resolved, raw, status)
        op == "callFunction click.settled"
        settled == <<p.fn, p.via,
                     IF resolved THEN "resolved" ELSE "rejected">>
        entry == HistoryEntry(nextEntry, contractAddress,
                              clicks[i].functionName, clicks[i].params,
                              outcome.result)
    IN /\ result' = outcome.result
       /\ IF outcome.state = "sent"
          THEN /\ pending' = [pending EXCEPT ![i].stage = "wait"]
               /\ Handled("callFunction click.sent", settled,
                          NoNotification, NoError)
               /\ UNCHANGED <<clicks, histVars>>
          ELSE /\ pending' = Without(pending, i)
               /\ clicks' = Without(clicks, i)
               /\ IF outcome.state = "threw"
                  THEN /\ Handled(op, settled,
                                  ErrorNotification(TitleCallFailed,
                                                    ErrLibrary),
                                  NoError)
                       /\ UNCHANGED histVars
                  ELSE /\ history' = AddedHistory(entry, history)
                       /\ txStorage' = SaveHistory(history')
                       /\ nextEntry' = nextEntry + 1
                       /\ Handled(op, settled, NoNotification,
                                  NoError)
                       /\ UNCHANGED deletes
       /\ UNCHANGED <<contractAddress, abi, contract, contractWithSigner,
                      given, abiVars, outsideVars, walletVars, statusConnected,
                      buttonDisabled>>

(***************************************************************************)
(* Two tabs of the page: each has its own HistoryManager and AbiManager,   *)
(* all share localStorage (part_002 lines 19-60, abi-manager.js 14-49).    *)
(***************************************************************************)
Tabs == {1, 2}

\* A tab's in-memory copies
Tab(h, abis) == [history |-> h, savedAbis |-> abis]

\* How many entries the tabs add in a run.
MaxTabAdds == 3

TabNames == {"Token", "NFT"}
TabTexts == {TextTokenAbi, TextEmptyArray, TextTruncated}

\* A tab is (re)loaded: the constructors read both documents.
tabLoad(t) ==
    /\ tabs' = [tabs EXCEPT ![t] =
                    Tab(LoadHistory(txStorage),
                        IF abiStorage # NoItem THEN JSONparseDoc(abiStorage)
                        ELSE <<>>)]
    /\ call' = Called("tab load", <<t>>, "loaded")
    /\ UNCHANGED <<history, txStorage, nextEntry, deletes, abiVars, ciVars,
                   walletVars, uiVars, serverVars>>

\* A variant that reads the stored history again before adding.
TabHistoryReread(t) == LoadHistory(txStorage)

\* this.history of tab t, the array addToHistory adds to
TabHistory(t) == tabs[t].history

\* addToHistory in tab t
tabAddToHistory(t) ==
    LET added == AddedHistory(nextEntry, TabHistory(t))
    IN /\ nextEntry <= MaxTabAdds
       /\ tabs' = [tabs EXCEPT ![t].history = added]
       /\ txStorage' = SaveHistory(added)
       /\ nextEntry' = nextEntry + 1
       /\ call' = Called("tab addToHistory", <<t, nextEntry>>, "true")
       /\ UNCHANGED <<history, deletes, abiVars, ciVars, walletVars, uiVars,
                      serverVars>>

\* saveAbi(name, content) in tab t
tabSaveAbi(t, name, content) ==
    LET saved == JsSet(tabs[t].savedAbis, name, content)
    IN /\ IF SaveAccepts(content)
          THEN /\ tabs' = [tabs EXCEPT ![t].savedAbis = saved]
               /\ abiStorage' = JSONstringify(saved)
               /\ call' = Called("tab saveAbi", <<t, name, content>>, "true")
          ELSE /\ call' = Called("tab saveAbi", <<t, name, content>>,
                                 ErrInvalidFormat)
               /\ UNCHANGED <<tabs, abiStorage>>
       /\ UNCHANGED <<savedAbis, histVars, ciVars, walletVars, uiVars,
                      serverVars>>

(***************************************************************************)
(* Specifications.                                                         *)
(***************************************************************************)
InitAbi ==
    /\ savedAbis = <<>>
    /\ abiStorage = NoItem

\* ContractInteractor after construction
InitInteractor ==
    /\ contractAddress = Null
    /\ abi = AbiNull
    /\ contract = NoBinding
    /\ contractWithSigner = NoBinding
    /\ pending = <<>>
    /\ result = UndefinedValue
    /\ given = NoInput

InitHistoryIdle ==
    /\ history = <<>>
    /\ txStorage = NoItem
    /\ nextEntry = 1
    /\ deletes = 0

\* The history manager after construction, over an empty or a previously
\* persisted storage.
InitHistory ==
    /\ \E n \in StoredLens :
          /\ txStorage = IF n = 0 THEN NoItem ELSE SaveHistory(StoredHistory(n))
          /\ history = LoadHistory(txStorage)
    /\ nextEntry = 1
    /\ deletes = 0
    /\ InitAbi
    /\ InitInteractor
    /\ call = NoCall
    /\ InitElsewhere

NextHistory ==
    \/ addToHistory
    \/ clearHistory
    \/ \E index \in DeleteIndexes(history) : deleteHistoryItem(index)

SpecHistory == InitHistory /\ [][NextHistory]_vars

InitAbiManager ==
    /\ InitAbi
    /\ InitHistoryIdle
    /\ InitInteractor
    /\ call = NoCall
    /\ InitElsewhere

\* The ABI manager over a storage that has room for every write.
NextAbi ==
    \/ \E name \in Names, content \in Texts : saveAbi(name, content, "ok")
    \/ \E name \in Names : deleteAbi(name, "ok")
    \/ loadSavedAbis

SpecAbi == InitAbiManager /\ [][NextAbi]_vars

\* The ABI manager over a storage whose writes may fail.
StorageNames == {"Token", "NFT"}
StorageTexts == {TextTokenAbi, TextEmptyArray, TextTruncated}

NextAbiStorage ==
    \/ \E name \in StorageNames, content \in StorageTexts,
          setItem \in SetItemOutcomes : saveAbi(name, content, setItem)
    \/ \E name \in StorageNames, setItem \in SetItemOutcomes :
          deleteAbi(name, setItem)
    \/ loadSavedAbis

SpecAbiStorage == InitAbiManager /\ [][NextAbiStorage]_vars

InitContract ==
    /\ InitInteractor
    /\ InitAbi
    /\ InitHistoryIdle
    /\ call = NoCall
    /\ InitElsewhere

InitEnvs ==
    {Env(FALSE, FALSE, "ok"), Env(FALSE, TRUE, "ok"), Env(TRUE, FALSE, "ok"),
     Env(TRUE, TRUE, "ok"), Env(TRUE, FALSE, "ctorThrows"),
     Env(TRUE, TRUE, "ctorThrows"), Env(TRUE, TRUE, "connectThrows")}

\* The setters of ContractInteractor, with every address and ABI argument.
NextSetters ==
    \/ \E address \in AddressInputs, env \in InitEnvs :
          setContractAddress(address, env.hasProvider, env.hasSigner, env.lib)
    \/ \E arg \in AbiArguments, env \in InitEnvs :
          setAbi(arg, env.hasProvider, env.hasSigner, env.lib)

SpecSetters == InitContract /\ [][NextSetters]_vars

\* ContractInteractor driven by a caller that awaits each call before it
\* makes the next one.
CallAddresses == {AddrLower, AddrShort}
CallAbiArguments ==
    {AbiText(TextTokenAbi), AbiParsed(AbiVault), AbiParsed(AbiNonArray),
     AbiParsed(AbiNull)}

NextContract ==
    \/ \E address \in CallAddresses, env \in InitEnvs :
          setContractAddress(address, env.hasProvider, env.hasSigner, env.lib)
    \/ \E arg \in CallAbiArguments, env \in InitEnvs :
          setAbi(arg, env.hasProvider, env.hasSigner, env.lib)
    \/ \E functionName \in FunctionNames, params \in ParamLists,
          value \in EthValues :
          /\ pending = <<>>
          /\ callFunction(functionName, params, value)
    \/ \E i \in 1..Len(pending), resolved \in BOOLEAN, raw \in RawResults,
          status \in {0, 1} :
          settle(i, resolved, raw, status)

SpecContract == InitContract /\ [][NextContract]_vars

\* All sequences over S of length at most n.
SeqsUpTo(S, n) == UNION {[1..k -> S] : k \in 0..n}

\* Bounds of the helper specifications.
MaxAbiLen == 3
MaxOutputs == 3
MaxRawLen == 3

\* getAvailableFunctions over every ABI of up to MaxAbiLen entries.
EntryPool == {EvApproval, Ctor, FnBalanceOf, FnTransfer, FnDeposit,
              FnAdd, FnTotalSupply}

AbiPool ==
    {AbiNull, AbiFalsy, AbiNonArray}
    \cup {AbiArray(items) : items \in SeqsUpTo(EntryPool, MaxAbiLen)}

InitFunctions ==
    /\ abi \in AbiPool
    /\ contractAddress = Null
    /\ contract = NoBinding
    /\ contractWithSigner = NoBinding
    /\ pending = <<>>
    /\ result = UndefinedValue
    /\ given = NoInput
    /\ InitAbi
    /\ InitHistoryIdle
    /\ call = NoCall
    /\ InitElsewhere

SpecFunctions == InitFunctions /\ [][getAvailableFunctions]_vars

\* _formatResult over raw results and output definitions of bounded length.
OutputPool ==
    {Param("", "uint256"), Param("reserve0", "uint256"),
     Param("output_1", "address")}

RawElements == {Big(7), Str("0xde709f")}

RawPool ==
    {Big(2000000000), Big(0 - 42), Str("hello"), Bool(TRUE), UndefinedValue}
    \cup {Arr(items) : items \in SeqsUpTo(RawElements, MaxRawLen)}

InitFormat ==
    /\ given \in {Input(raw, outputDefinitions) :
                     raw \in RawPool,
                     outputDefinitions \in SeqsUpTo(OutputPool, MaxOutputs)}
    /\ contractAddress = Null
    /\ abi = AbiNull
    /\ contract = NoBinding
    /\ contractWithSigner = NoBinding
    /\ pending = <<>>
    /\ result = UndefinedValue
    /\ InitAbi
    /\ InitHistoryIdle
    /\ call = NoCall
    /\ InitElsewhere

SpecFormat == InitFormat /\ [][applyFormatResult]_vars

\* Only addToHistory runs: the sequences of calls claim C1 is about.
SpecHistoryAdds == InitHistory /\ [][addToHistory]_vars

\* The connector and the status display its callbacks drive, with or
\* without the wallet extension.
InitWallet ==
    /\ ethereum \in BOOLEAN
    /\ InitConnector
    /\ InitUi
    /\ InitInteractor
    /\ InitAbi
    /\ InitHistoryIdle
    /\ InitServerIdle
    /\ InitTabsIdle
    /\ call = NoCall

NextWallet ==
    \/ connect
    \/ checkConnection
    \/ \E i \in 1..Len(requests), answer \in AccountAnswers :
          accountsAnswered(i, answer)
    \/ \E i \in 1..Len(requests), ok \in BOOLEAN, chainId \in ChainIds :
          chainIdAnswered(i, ok, chainId)
    \/ \E chainId \in ChainIds : chainChanged(chainId)
    \/ \E accounts \in AccountLists : accountsChanged(accounts)
    \/ disconnectEvent
    \/ disconnect

SpecWallet == InitWallet /\ [][NextWallet]_vars

\* The page after DOMContentLoaded, over an empty storage.
InitApp ==
    /\ ethereum \in BOOLEAN
    /\ InitConnector
    /\ InitUi
    /\ InitInteractor
    /\ InitAbi
    /\ InitHistoryIdle
    /\ InitServerIdle
    /\ InitTabsIdle
    /\ call = NoCall

\* The user-triggered handlers, each with inputs that succeed and inputs
\* that fail, for a user who waits for the wallet and for a call to answer
\* before asking again.
HandlerAbiTexts == {TextBlank, TextTokenAbi, TextObject, TextTruncated}
HandlerAddresses == {"", AddrPadded, AddrShort}
HandlerFunctions == {"", "balanceOf", "transfer", "mint"}
HandlerRaw == {Big(2000000000)}

\* What the library does with the ABIs the handlers pass on: it builds a
\* contract from an array of fragments and throws on any other value.
ConstructorOutcomes(abiValue) ==
    IF abiValue.kind = "array" THEN {"ok"} ELSE {"ctorThrows"}

TextOutcomes(abiText) ==
    IF ParsesAsJson(abiText) THEN ConstructorOutcomes(JSONparseAbi(abiText))
    ELSE {"ok"}

NextHandlers ==
    \/ requests = <<>> /\ connect
    \/ \E i \in 1..Len(requests), answer \in AccountAnswers :
          accountsAnswered(i, answer)
    \/ \E i \in 1..Len(requests), ok \in BOOLEAN :
          chainIdAnswered(i, ok, "0x1")
    \/ \E text \in HandlerAbiTexts, abiName \in {Null, "Token"} :
          onSaveAbiClick(text, abiName)
    \/ \E selectedAbiName \in OwnKeys(savedAbis) \cup {""} :
          \E lib \in TextOutcomes(getAbiByName(selectedAbiName)) :
             onSavedAbisChange(selectedAbiName, lib)
    \/ \E text \in HandlerAbiTexts :
          \E lib \in TextOutcomes(Trim(text)) : onAbiInputChange(text, lib)
    \/ \E text \in HandlerAddresses :
          \E lib \in ConstructorOutcomes(abi) :
             onContractAddressChange(text, lib)
    \/ \E functionName \in HandlerFunctions, params \in ParamLists :
          /\ pending = <<>>
          /\ onCallFunctionClick(functionName, params)
    \/ \E i \in 1..Len(pending), resolved \in BOOLEAN, raw \in HandlerRaw :
          onCallSettled(i, resolved, raw, 1)

SpecHandlers == InitApp /\ [][NextHandlers]_vars

\* The server over every document root, serving up to MaxServed requests
\* whose reads may overlap.
InitServer ==
    /\ files \in [StoredPaths -> FileStates]
    /\ serving = <<>>
    /\ responses = <<>>
    /\ InitTabsIdle
    /\ ethereum = FALSE
    /\ InitConnector
    /\ InitUi
    /\ InitInteractor
    /\ InitAbi
    /\ InitHistoryIdle
    /\ call = NoCall

NextServer ==
    \/ \E reqUrl \in Urls : request(reqUrl)
    \/ \E i \in 1..Len(serving) : readFileCallback(i)
    \/ \E i \in 1..Len(serving) : fallbackCallback(i)

SpecServer == InitServer /\ [][NextServer]_vars

\* Two tabs opened over an empty storage or over a stored history.
InitTabs ==
    /\ txStorage \in {NoItem, SaveHistory(StoredHistory(1))}
    /\ abiStorage = NoItem
    /\ tabs = [t \in Tabs |-> Tab(LoadHistory(txStorage), <<>>)]
    /\ history = <<>>
    /\ savedAbis = <<>>
    /\ nextEntry = 1
    /\ deletes = 0
    /\ InitInteractor
    /\ ethereum = FALSE
    /\ InitConnector
    /\ InitUi
    /\ InitServerIdle
    /\ call = NoCall

NextTabs ==
    \/ \E t \in Tabs : tabLoad(t)
    \/ \E t \in Tabs : tabAddToHistory(t)
    \/ \E t \in Tabs, name \in TabNames, content \in TabTexts :
          tabSaveAbi(t, name, content)

SpecTabs == InitTabs /\ [][NextTabs]_vars

\* A history of n entries the call handler recorded in earlier sessions,
\* newest first.
RecordedHistory(n) ==
    [i \in 1..n |->
        HistoryEntry(0 - i, AddrLower, "balanceOf",
                     <<Str(AddrLower), Str("7")>>, Str("2000000000"))]

\* The page after DOMContentLoaded, over an empty or a full stored
\* history, with the wallet extension installed.
InitCalls ==
    /\ ethereum = TRUE
    /\ InitConnector
    /\ InitUi
    /\ InitInteractor
    /\ InitAbi
    /\ \E n \in {0, maxHistoryItems} :
          /\ txStorage = IF n = 0 THEN NoItem
                         ELSE SaveHistory(RecordedHistory(n))
          /\ history = LoadHistory(txStorage)
    /\ nextEntry = 1
    /\ deletes = 0
    /\ InitServerIdle
    /\ InitTabsIdle
    /\ call = NoCall

\* The user connects the wallet, enters an ABI and an address in any
\* order, and clicks the call button without waiting for earlier calls.
CallsAddresses == {AddrLower, AddrUpper}
CallsFunctions == {"balanceOf", "transfer"}

NextCalls ==
    \/ requests = <<>> /\ connect
    \/ \E i \in 1..Len(requests) :
          accountsAnswered(i, [ok |-> TRUE, accounts |-> <<Account1>>])
    \/ \E i \in 1..Len(requests) : chainIdAnswered(i, TRUE, "0x1")
    \/ onAbiInputChange(TextTokenAbi, "ok")
    \/ \E text \in CallsAddresses : onContractAddressChange(text, "ok")
    \/ \E functionName \in CallsFunctions, params \in ParamLists :
          onCallFunctionClick(functionName, params)
    \/ \E i \in 1..Len(pending), resolved \in BOOLEAN, raw \in HandlerRaw :
          onCallSettled(i, resolved, raw, 1)

SpecCalls == InitCalls /\ [][NextCalls]_vars

(***************************************************************************)
(* Claims about HistoryManager.                                            *)
(***************************************************************************)
\* The number of addToHistory calls made so far.
Added == nextEntry - 1

\* C1: after any sequence of addToHistory calls, starting from an empty or
\* a persisted history of at most 50 entries, the history holds at most 50
\* entries, and once more than 50 entries have been added it holds exactly
\* the 50 most recently added ones, newest first.
C1_CappedNewestFirst ==
    /\ Len(history) <= maxHistoryItems
    /\ Added > maxHistoryItems =>
          history = [i \in 1..maxHistoryItems |-> nextEntry - i]

C1_Witness ==
    /\ call.op = "addToHistory"
    /\ Added > maxHistoryItems
    /\ Len(history) = maxHistoryItems
    /\ history[1] = Added

\* C10: deleteHistoryItem(index) with an index outside 0..length-1 returns
\* the failure indicator and changes neither the history nor the persisted
\* document; with an index in range it removes exactly the entry at that
\* position, keeps the order of the others, and persists the result.
C10_DeleteStep ==
    call'.op = "deleteHistoryItem" =>
        LET index == call'.arg[1]
        IN IF index < 0 \/ index > Len(history) - 1
           THEN /\ call'.ret = "false"
                /\ history' = history
                /\ txStorage' = txStorage
           ELSE /\ call'.ret = "true"
                /\ Len(history') = Len(history) - 1
                /\ \A i \in 1..Len(history') :
                      history'[i] = IF i <= index THEN history[i]
                                    ELSE history[i + 1]
                /\ txStorage' = JSONstringify(history')

Saved(name, content) ==
    /\ call'.op = "saveAbi"
    /\ call'.arg[1] = name
    /\ call'.arg[2] = content
    /\ call'.ret = "true"

\* The step saves or deletes under the name, successfully or not.
Touches(name) ==
    /\ call'.op \in {"saveAbi", "deleteAbi"}
    /\ call'.arg[1] = name

\* C4: for any name and any text that is a valid JSON array, after
\* saveAbi(name, text) succeeds getAbiByName(name) returns exactly the text,
\* and it keeps returning it until that name is saved again or deleted.
C4_RoundTripStep ==
    \A name \in Names, content \in Texts :
        /\ (Saved(name, content) /\ validateAbi(content))
              => getAbiByName(name)' = content
        /\ (getAbiByName(name) = content /\ ~Touches(name))
              => getAbiByName(name)' = content

C4_RoundTrip == [][C4_RoundTripStep]_vars

\* C5: saving an ABI under a name that is already saved replaces the text
\* stored for that name, leaves the number of names getSavedAbisList returns
\* unchanged, and leaves the text stored under every other name unchanged.
C5_OverwriteStep ==
    \A name \in Names, content \in Texts :
        (Saved(name, content)
            /\ \E i \in 1..Len(getSavedAbisList) : getSavedAbisList[i] = name)
        => /\ getAbiByName(name)' = content
           /\ Len(getSavedAbisList') = Len(getSavedAbisList)
           /\ \A other \in Names \ {name} :
                 getAbiByName(other)' = getAbiByName(other)

C5_Overwrite == [][C5_OverwriteStep]_vars

\* The name just saved is older than another saved name, so the save
\* overwrote it.
C5_Witness ==
    /\ call.op = "saveAbi"
    /\ call.ret = "true"
    /\ Len(getSavedAbisList) >= 2
    /\ getSavedAbisList[1] = call.arg[1]
    /\ getAbiByName(call.arg[1]) = call.arg[2]

\* C8: saveAbi(name, text) fails with the "invalid format" error exactly
\* when text does not parse as JSON; any text that parses as JSON is stored
\* under name, also a non-array value that validateAbi rejects.
C8_SaveStep ==
    call'.op = "saveAbi" =>
        LET name == call'.arg[1]
            content == call'.arg[2]
        IN /\ call'.ret = ErrInvalidFormat <=> ~ParsesAsJson(content)
           /\ ParsesAsJson(content) =>
                 /\ call'.ret = "true"
                 /\ name \in OwnKeys(savedAbis')
                 /\ JsGet(savedAbis', name) = content

C8_SaveAbi == [][C8_SaveStep]_vars

(***************************************************************************)
(* Claims about ContractInteractor.                                        *)
(***************************************************************************)
\* The step is a callFunction call that dispatched a call to the library.
DispatchedNow == call'.op = "callFunction" /\ pending' # pending

\* The current ABI has a function entry of the name.
HasFunction(functionName) ==
    /\ abi.kind = "array"
    /\ \E i \in 1..Len(abi.items) :
          /\ abi.items[i].type = "function"
          /\ abi.items[i].name = functionName

\* C2: in callFunction, a function whose mutability is view or pure, or
\* whose legacy constant flag is set, is always dispatched through the
\* read-only binding, whether or not a signer-backed binding exists; a
\* function of any other mutability, when no signer-backed binding exists,
\* fails with the "signer required" error and nothing is dispatched.
C2_DispatchStep ==
    (call'.op = "callFunction" /\ isContractReady
        /\ HasFunction(call'.arg[1]))
    => LET f == getFunctionDetails(call'.arg[1])
           readOnly == \/ f.stateMutability \in {"view", "pure"}
                       \/ f.constant
       IN /\ readOnly =>
                /\ Len(pending') = Len(pending) + 1
                /\ SubSeq(pending', 1, Len(pending)) = pending
                /\ pending'[Len(pending')].fn = f.name
                /\ pending'[Len(pending')].via = "read"
                /\ pending'[Len(pending')].binding = contract
                /\ contract.by = "provider"
          /\ (~readOnly /\ contractWithSigner = NoBinding) =>
                /\ call'.ret = ErrSignerRequired
                /\ pending' = pending

C3_GuardStep ==
    call'.op = "callFunction" =>
        LET ready == /\ contractAddress \notin {Null, Undefined, ""}
                     /\ abi.kind = "array"
                     /\ abi.items # <<>>
                     /\ HasFunction(call'.arg[1])
        IN /\ DispatchedNow => ready
           /\ ~ready => /\ pending' = pending
                        /\ call'.ret \in {ErrNotReady, ErrNoFunction,
                                          ErrTypeError}

C3_DispatchGuard == [][C3_GuardStep]_vars

\* A payable function went out through the signer-backed binding.
C3_Witness ==
    /\ call.op = "callFunction"
    /\ call.ret = "pending"
    /\ pending[1].via = "write"
    /\ pending[1].fn = "deposit"
    /\ pending[1].value # ""

\* C9: setContractAddress(addr) fails when addr is not a well-formed hex
\* address, and then the stored address and both bindings are unchanged;
\* when addr is well-formed the address is stored and the call returns
\* success, also when the binding could not be (re)initialized.
C9_SetAddressStep ==
    call'.op = "setContractAddress" =>
        LET address == call'.arg[1]
        IN IF isAddress(address)
           THEN /\ call'.ret = "true"
                /\ contractAddress' = address
           ELSE /\ call'.ret = ErrInvalidAddress
                /\ contractAddress' = contractAddress
                /\ contract' = contract
                /\ contractWithSigner' = contractWithSigner

C9_SetContractAddress == [][C9_SetAddressStep]_vars

\* The address was stored and success returned while the read-only binding
\* is still the one of the previous address.
C9_Witness ==
    /\ call.op = "setContractAddress"
    /\ call.ret = "true"
    /\ contractAddress = call.arg[1]
    /\ contract # NoBinding
    /\ contract.address # contractAddress

\* C6: for an ABI with N entries of type function and M entries of any
\* other type, getAvailableFunctions returns exactly N descriptors, one per
\* function entry, in the order the function entries have in the ABI; with
\* no ABI set it returns the empty list.
FunctionPositions == {i \in 1..Len(abi.items) : abi.items[i].type = "function"}

\* The position in the ABI of its k-th function entry.
NthFunction(k) ==
    CHOOSE i \in FunctionPositions :
        Cardinality({j \in FunctionPositions : j <= i}) = k

C6_FunctionsInOrder ==
    (call.op = "getAvailableFunctions" /\ abi.kind # "nonarray") =>
        /\ call.ret = "returned"
        /\ abi.kind \in {"null", "falsy"} => result = <<>>
        /\ abi.kind = "array" =>
              /\ Len(result) = Cardinality(FunctionPositions)
              /\ \A k \in 1..Len(result) :
                    LET entry == abi.items[NthFunction(k)]
                    IN /\ result[k].name = entry.name
                       /\ result[k].type = entry.stateMutability
                       /\ result[k].inputs = entry.inputs
                       /\ result[k].outputs = entry.outputs

\* Two function entries with an entry of another type between them.
C6_Witness ==
    /\ call.op = "getAvailableFunctions"
    /\ abi.kind = "array"
    /\ Len(abi.items) = 3
    /\ abi.items[2].type # "function"
    /\ Len(result) = 2
    /\ result[1].name # result[2].name

\* C7: the formatted result of a read call is the decimal string when the
\* raw result is a large integer; a mapping with one field per declared
\* output, keyed by the output's name (output_<index> when it has none) and
\* with large-integer fields stringified, when the ABI declares more than
\* one output and the raw result is array-shaped; and the raw value
\* unchanged in every other case.
Stringified(value) ==
    IF value.t = "BigNumber" THEN Str(BigNumberToString(value.n)) ELSE value

FieldOf(object, key) ==
    object.items[CHOOSE i \in 1..Len(object.keys) : object.keys[i] = key]

C7_FormattedResult ==
    call.op = "_formatResult" =>
        LET raw == given.raw
            outs == given.outputs
            KeyOf(i) == IF outs[i].name # "" THEN outs[i].name
                        ELSE "output_" \o NatToString(i - 1)
        IN IF raw.t = "BigNumber"
           THEN result = Str(BigNumberToString(raw.n))
           ELSE IF Len(outs) > 1 /\ raw.t = "array"
           THEN /\ result.t = "object"
                /\ Len(result.keys) = Len(outs)
                /\ \A i \in 1..Len(outs) :
                      /\ \E j \in 1..Len(result.keys) : result.keys[j] = KeyOf(i)
                      /\ FieldOf(result, KeyOf(i)) =
                            Stringified(IF i <= Len(raw.items)
                                        THEN raw.items[i] ELSE UndefinedValue)
           ELSE result = raw

(***************************************************************************)
(* Claims about MetaMaskConnector.                                         *)
(***************************************************************************)
\* C11: an accounts-changed event with no account is treated as a
\* disconnect (not connected, no current address, only the disconnected
\* callback fires); with at least one account it sets the current address
\* to the first account and fires the accounts-changed callback; the
\* disconnect event and disconnect() clear the connection flag and the
\* address and fire the disconnected callback.
C11_EventStep ==
    /\ (call'.op = "accountsChanged" /\ Len(call'.arg[1]) = 0)
          => /\ isConnected' = FALSE
             /\ currentAddress' = Null
             /\ fired' = <<"onDisconnected">>
    /\ (call'.op = "accountsChanged" /\ Len(call'.arg[1]) > 0)
          => /\ currentAddress' = call'.arg[1][1]
             /\ fired' = <<"onAccountsChanged">>
    /\ call'.op \in {"disconnect event", "disconnect"}
          => /\ isConnected' = FALSE
             /\ currentAddress' = Null
             /\ fired' = <<"onDisconnected">>

C11_WalletEvents == [][C11_EventStep]_vars

\* A connection that had been established has just been ended by an
\* accounts-changed event without accounts.
C11_Witness ==
    /\ call.op = "accountsChanged"
    /\ Len(call.arg[1]) = 0
    /\ provider # Null
    /\ ~isConnected
    /\ currentAddress = Null
    /\ fired = <<"onDisconnected">>

(***************************************************************************)
(* Claims about the event handlers.                                        *)
(***************************************************************************)
\* The handler step c was given an input that makes its action fail.
FailingAction(c) ==
    \/ /\ c.op = "contractAddress change"
       /\ Trim(c.arg[1]) # ""
       /\ ~isAddress(Trim(c.arg[1]))
    \/ /\ c.op = "abiInput change"
       /\ Trim(c.arg[1]) # ""
       /\ ~ParsesAsJson(Trim(c.arg[1]))
    \/ /\ c.op = "saveAbiBtn click"
       /\ Trim(c.arg[1]) # ""
       /\ Truthy(c.arg[2])
       /\ ~ParsesAsJson(Trim(c.arg[1]))
    \/ /\ c.op = "connect.settled"
       /\ c.ret \in {ErrNotInstalled, ErrNoAccount, ErrRequestRejected}
    \/ /\ c.op = "callFunction click.settled"
       /\ c.ret = ErrLibrary

\* C12: every failure raised by a user-triggered action (connecting,
\* saving an ABI, editing an ABI, entering an invalid contract address,
\* invoking a function) is caught inside that action's handler and shown
\* as a titled error notification; none escapes its handler.
C12_HandlerStep ==
    /\ uncaught' = NoError
    /\ FailingAction(call') => /\ shown'.type = "error"
                               /\ shown'.title # ""

C12_FailuresCaught == [][C12_HandlerStep]_vars

(***************************************************************************)
(* Claims about the static server.                                         *)
(***************************************************************************)
\* The path a request URL names holds a file / holds nothing.
Exists(reqUrl) ==
    FilePath(reqUrl) \in StoredPaths /\ files[FilePath(reqUrl)] = "file"
Missing(reqUrl) ==
    FilePath(reqUrl) \notin StoredPaths \/ files[FilePath(reqUrl)] = "missing"

\* C13: every request gets exactly one response, with status 200 or 500:
\* an existing file yields 200 with the content type of its extension; a
\* missing file yields the root document with 200 and text/html; 500 with
\* a plain-text body is returned only when the root document cannot be
\* read in the fallback or the first read fails with another error than
\* 'not found'.
C13_OneResponse ==
    /\ \A id \in 1..(Len(responses) + Len(serving)) :
          Cardinality({k \in 1..Len(responses) : responses[k].id = id})
          + Cardinality({k \in 1..Len(serving) : serving[k].id = id}) = 1
    /\ \A k \in 1..Len(responses) :
          LET r == responses[k]
          IN /\ r.status \in {200, 500}
             /\ Exists(r.url) =>
                   /\ r.status = 200
                   /\ r.contentType = MimeType(ExtName(FilePath(r.url)))
                   /\ r.body = "content of " \o FilePath(r.url)
             /\ (Missing(r.url) /\ files["./index.html"] = "file") =>
                   /\ r.status = 200
                   /\ r.contentType = "text/html"
                   /\ r.body = "content of ./index.html"
             /\ r.status = 500 <=>
                   \/ Missing(r.url) /\ files["./index.html"] # "file"
                   \/ ~Missing(r.url) /\ ~Exists(r.url)
             /\ r.status = 500 => r.contentType = NoContentType

\* Two overlapping requests were answered, the second one first: an
\* unknown route served from the root document, and a stylesheet.
C13_Witness ==
    /\ Len(responses) = 2
    /\ responses[1].id = 2
    /\ responses[1].url = "/logo.svg"
    /\ responses[1].contentType = "text/html"
    /\ responses[2].url = "/css/style.css"
    /\ responses[2].contentType = "text/css"

(***************************************************************************)
(* Claims about tabs sharing localStorage.                                 *)
(***************************************************************************)
Elements(seq) == {seq[i] : i \in 1..Len(seq)}

\* C14: with two tabs holding their own in-memory copies, a write by one
\* tab stores that tab's copy without reading the stored document again:
\* every stored history entry (saved-ABI name) the writing tab does not
\* hold is gone from the stored document after its add (save), so an
\* entry written by the other tab can be lost.
C14_WriteStep ==
    /\ call'.op = "tab addToHistory" =>
          \A e \in Elements(LoadHistory(txStorage)) :
             e \notin Elements(tabs[call'.arg[1]].history)
                => e \notin Elements(LoadHistory(txStorage'))
    /\ (call'.op = "tab saveAbi" /\ call'.ret = "true") =>
          \A k \in OwnKeys(JSONparseDoc(abiStorage)) :
             (k \notin OwnKeys(tabs[call'.arg[1]].savedAbis)
              /\ k # call'.arg[2])
                => k \notin OwnKeys(JSONparseDoc(abiStorage'))

C14_LostUpdate == [][C14_WriteStep]_vars

\* Tab 2 has just added an entry and saved an ABI of its own; an entry
\* that tab 1 added and a name that tab 1 saved are no longer stored.
C14_Witness ==
    /\ call.op \in {"tab addToHistory", "tab saveAbi"}
    /\ call.arg[1] = 2
    /\ \E e \in Elements(tabs[1].history) :
          /\ e >= 1
          /\ e \notin Elements(LoadHistory(txStorage))
    /\ \E k \in OwnKeys(tabs[1].savedAbis) :
          k \notin OwnKeys(JSONparseDoc(abiStorage))

(***************************************************************************)
(* Claims about calls in flight.                                           *)
(***************************************************************************)
Min(a, b) == IF a < b THEN a ELSE b

\* C15: nothing prevents overlapping calls: a click on the call button
\* dispatches a call whenever the binding can dispatch it, also while
\* earlier calls are in flight; each call that completes successfully adds
\* exactly one history entry, at the front, in completion order; each
\* call that fails adds none.
C15_CallStep ==
    /\ (call'.op = "callFunction click"
        /\ CallOutcome(call'.arg[1], <<>>, "").error = NoError)
          => /\ Len(pending') = Len(pending) + 1
             /\ pending'[Len(pending')].fn = call'.arg[1]
             /\ \A i \in 1..Len(pending) : pending'[i] = pending[i]
             /\ history' = history
    /\ (call'.op = "callFunction click.settled"
        /\ call'.arg[3] = "resolved")
          => /\ Len(history') = Min(Len(history) + 1, maxHistoryItems)
             /\ history'[1].function = call'.arg[1]
             /\ history'[1].timestamp = nextEntry
             /\ \A i \in 2..Len(history') : history'[i] = history[i - 1]
             /\ txStorage' = JSONstringify(history')
             /\ Len(pending') = Len(pending) - 1
    /\ (call'.op = "callFunction click.settled"
        /\ call'.arg[3] = "rejected")
          => /\ history' = history
             /\ txStorage' = txStorage
             /\ Len(pending') = Len(pending) - 1
    /\ call'.op = "callFunction click.sent"
          => /\ history' = history
             /\ Len(pending') = Len(pending)

C15_OverlappingCalls == [][C15_CallStep]_vars

\* Of two calls that were in flight together, the one dispatched second
\* has just completed and was recorded; the first is still in flight.
C15_Witness ==
    /\ call.op = "callFunction click.settled"
    /\ call.arg[3] = "resolved"
    /\ call.arg[1] = "balanceOf"
    /\ Len(pending) = 1
    /\ pending[1].fn = "transfer"
    /\ pending[1].stage = "wait"
    /\ Len(history) = 1
    /\ history[1].function = "balanceOf"

(***************************************************************************)
(* Claims about the contract binding.                                      *)
(***************************************************************************)
\* The step is a setter call that went on to _initializeContract.
Initializes == call'.op \in {"setContractAddress", "setAbi"} /\ call'.ret = "true"

\* C16: binding initialization (run by setContractAddress and setAbi)
\* leaves both bindings unchanged whenever the address is unset, the ABI
\* is unset or no read provider is available; when all three are present
\* it creates the read-only binding, and it sets the signer-backed binding
\* only if a signer is available at that moment.
C16_InitStep ==
    Initializes =>
        LET env == call'.arg[2]
        IN IF ~Truthy(contractAddress') \/ ~TruthyAbi(abi')
              \/ ~env.hasProvider
           THEN /\ contract' = contract
                /\ contractWithSigner' = contractWithSigner
           ELSE /\ contract' = Binding(contractAddress', abi', "provider")
                /\ contractWithSigner' # contractWithSigner => env.hasSigner

C16_InitFrame == [][C16_InitStep]_vars

\* C16 as amended: as above, except that with all three present the
\* read-only binding is created only if the library's Contract constructor
\* accepts the address and the ABI; if it throws, both bindings are left
\* unchanged.  With the read-only binding created, the signer-backed
\* binding is derived from it exactly if a signer is available and
\* connect does not throw, and is left unchanged otherwise.
C16_InitStepAmended ==
    Initializes =>
        LET env == call'.arg[2]
            made == Binding(contractAddress', abi', "provider")
        IN IF ~Truthy(contractAddress') \/ ~TruthyAbi(abi')
              \/ ~env.hasProvider \/ env.lib = "ctorThrows"
           THEN /\ contract' = contract
                /\ contractWithSigner' = contractWithSigner
           ELSE /\ contract' = made
                /\ contractWithSigner' =
                      IF env.hasSigner /\ env.lib # "connectThrows"
                      THEN Binding(made.address, made.abi, "signer")
                      ELSE contractWithSigner

C16_InitFrameAmended == [][C16_InitStepAmended]_vars

\* setAbi stored a new ABI with address and provider present, the
\* constructor threw, and the bindings are still those of the old ABI.
C16_Witness ==
    /\ call.op = "setAbi"
    /\ call.ret = "true"
    /\ call.arg[2].hasProvider
    /\ call.arg[2].lib = "ctorThrows"
    /\ Truthy(contractAddress)
    /\ abi.kind = "nonarray"
    /\ contract # NoBinding
    /\ contract.abi # abi
    /\ contractWithSigner # NoBinding

\* C17: whenever isContractReady() is true, the read-only binding was
\* built from the currently stored address and the currently stored ABI,
\* and the signer-backed binding, if any, was derived from that same
\* read-only binding.
C17_ReadyBinding ==
    isContractReady =>
        /\ contract = Binding(contractAddress, abi, "provider")
        /\ contractWithSigner # NoBinding =>
              contractWithSigner =
                  Binding(contract.address, contract.abi, "signer")

\* C18: once the wallet is connected and a valid address and a valid ABI
\* have both been set, the binding is ready, whatever the order of the
\* three steps: also when address and ABI were set before the wallet
\* connected.
C18_ReadyAnyOrder ==
    (/\ isConnected
     /\ provider # Null
     /\ signer # Null
     /\ requests = <<>>
     /\ isAddress(contractAddress)
     /\ abi.kind = "array")
    => isContractReady

\* C19: whenever isConnected is true and no connect() or checkConnection()
\* is in progress, the current address, the provider and the signer are
\* all set; and a connect() that has just failed does not leave
\* isConnected true.
C19_ConnectedComplete ==
    /\ (isConnected /\ requests = <<>>) =>
          /\ currentAddress # Null
          /\ provider # Null
          /\ signer # Null
    /\ (/\ call.op = "connect.settled"
        /\ call.ret \in {ErrNotInstalled, ErrNoAccount, ErrRequestRejected,
                         ErrTypeError}
        /\ requests = <<>>)
       => ~isConnected

\* C20: once every connect() and checkConnection() has finished, the
\* status shown by the UI and the disabling of the connect button both
\* agree with the connector's isConnected flag.
C20_UiAgrees ==
    requests = <<>> =>
        /\ statusConnected = isConnected
        /\ buttonDisabled = isConnected

\* C21: every history entry recorded by the call button holds the address
\* of the binding its call was dispatched through, and the function name
\* and the parameters of that call, also when the address was changed or
\* another call was started while the call was in flight.
C21_RecordStep ==
    (call'.op = "callFunction click.settled" /\ nextEntry' = nextEntry + 1)
    => \E i \in 1..Len(pending) :
          /\ pending' = Without(pending, i)
          /\ clicks' = Without(clicks, i)
          /\ history'[1].timestamp = nextEntry
          /\ history'[1].address = pending[i].binding.address
          /\ history'[1].function = pending[i].fn
          /\ history'[1].params = clicks[i].params

C21_RecordsDispatched == [][C21_RecordStep]_vars

\* C22: when saveAbi raises an error, the in-memory map and the persisted
\* document are both unchanged; after a saveAbi or a deleteAbi that
\* returns true the persisted document is the JSON serialization of the
\* in-memory map.  The storage write itself may fail.
C22_AbiStep ==
    /\ (call'.op = "saveAbi" /\ call'.ret = ErrInvalidFormat) =>
          /\ savedAbis' = savedAbis
          /\ abiStorage' = abiStorage
    /\ (call'.op \in {"saveAbi", "deleteAbi"} /\ call'.ret = "true") =>
          abiStorage' = JSONstringify(savedAbis')

C22_SaveAtomic == [][C22_AbiStep]_vars
====
